---- MODULE Spec2Model ----
(***************************************************************************)
(* State-machine model of the Uploader class of src/source/uploader.ts.    *)
(*                                                                         *)
(* JavaScript runs one task at a time: every action below is one task      *)
(* (an XHR event, a timer, an RPC response, a call made by the user of     *)
(* the class) together with all the promise reactions (microtasks) that    *)
(* run before the next task.  A handler is a function from a session       *)
(* record s (the fields of the Uploader object plus the environment's      *)
(* view of its connections, timers and pending RPCs) to the next record.   *)
(***************************************************************************)
EXTENDS Integers, Sequences, FiniteSets, TLC

VARIABLES
  request,            \* what the constructor is given: names, normaliser, signal
  listening,          \* handleAbortSignal is registered on options.signal
  pc,                 \* "unbuilt", "thrown" (constructor); position of start():
                      \* "new", "preflight", "running", "rejected"
  legacy,             \* options.xhr was supplied by the caller
  fileSize,           \* this.fileSize
  numParts,           \* this.numParts, 0 standing for null
  xhr,                \* this.xhr (single transfer): "none", "unsent", "open", "done"
  singleLoaded,       \* bytes reported by the single transfer's last progress event
  xhrStatus,          \* xhr.status of the single transfer: 0 until a response arrives
  parts,              \* this.parts: the backlog, a stack of part numbers
  activeConnections,  \* keys (part_number - 1) of this.activeConnections
  conn,               \* per part: the XHR most recently created for it
  orphans,            \* open XHRs that a later XHR of the same part displaced
  timer,              \* per part: pending back-off timer (its retry), -1 if none
  uploadedParts,      \* this.uploadedParts (part numbers, in array order)
  uploadedSize,       \* this.uploadedSize
  progressCache,      \* this.progressCache, -1 standing for an absent key
  rpcs,               \* session.call / session.delete requests awaiting a response
  calls,              \* log of callbacks invoked and RPCs issued, in order
  lastProgress,       \* last percentage passed to onProgress before this task, -1 if none
  reports,            \* percentages passed to onProgress by the last task, in order
  eventHub,           \* session.eventHub.isConnected()
  used,               \* how many failures, offline dispatches, ... the run has had
  limit               \* how many of each the environment of this run may produce

vars == <<request, listening, pc, legacy, fileSize, numParts, xhr, singleLoaded, xhrStatus, parts,
          activeConnections, conn, orphans, timer, uploadedParts, uploadedSize,
          progressCache, rpcs, calls, lastProgress, reports, eventHub, used, limit>>

(***************************************************************************)
(* Program constants.                                                      *)
(***************************************************************************)
maxConcurrentConnections == 6

MaxRetry == 6

(***************************************************************************)
(* Bounds of the model.                                                    *)
(***************************************************************************)
ChunkUnits == 2          \* this.chunkSize, in abstract byte units

MaxFlaky == 2            \* parts whose connections may fail in the retry runs

MaxFailures == 16        \* connection errors per run

MaxOffline == 3          \* part dispatches made while navigator.onLine is false

MaxAborts == 1           \* explicit abort() calls per run

MaxStuck == 1            \* part responses that are not 200-with-ETag per run

MaxProgress == 3         \* upload progress events per run

MaxRpcFailures == 1      \* completion or delete RPCs that are rejected per run

MaxOfflineEvents == 1    \* window "offline" events per run

(***************************************************************************)
(* The session record and helpers.                                         *)
(***************************************************************************)
Cur ==
  [request |-> request, listening |-> listening, pc |-> pc, legacy |-> legacy, fileSize |-> fileSize, numParts |-> numParts,
   xhr |-> xhr, singleLoaded |-> singleLoaded, status |-> xhrStatus, parts |-> parts,
   activeConnections |-> activeConnections, conn |-> conn, orphans |-> orphans,
   timer |-> timer, uploadedParts |-> uploadedParts, uploadedSize |-> uploadedSize,
   progressCache |-> progressCache, rpcs |-> rpcs, calls |-> calls,
   lastProgress |-> IF reports = <<>> THEN lastProgress ELSE reports[Len(reports)],
   reports |-> <<>>, eventHub |-> eventHub, used |-> used, limit |-> limit,
   queue |-> <<>>]        \* promise reactions waiting to run in this task

Min(a, b) == IF a <= b THEN a ELSE b

RECURSIVE SumOver(_, _)
SumOver(f, S) ==
  IF S = {} THEN 0
  ELSE LET x == CHOOSE y \in S : TRUE IN f[x] + SumOver(f, S \ {x})

RECURSIVE SortedKeys(_)
SortedKeys(S) ==
  IF S = {} THEN <<>>
  ELSE LET m == CHOOSE x \in S : \A y \in S : x <= y
       IN <<m>> \o SortedKeys(S \ {m})

Remove(seq, i) == SubSeq(seq, 1, i - 1) \o SubSeq(seq, i + 1, Len(seq))

NoConn == [st |-> "none", live |-> FALSE, retry |-> 0, loaded |-> 0, chunk |-> {}]

Log(s, name, code, manifest) ==
  [s EXCEPT !.calls = Append(@, [name |-> name, code |-> code, parts |-> manifest])]

Use(s, what) == [s EXCEPT !.used[what] = @ + 1]

\* file.slice(sentSize, sentSize + chunkSize).size for part p
PartSize(s, p) == Min(ChunkUnits, s.fileSize - (p - 1) * ChunkUnits)

\* Blob.slice(start, end): the bytes of the blob from start up to, not
\* including, end, clipped to the blob
slice(size, start, end) == {b \in 0..(size - 1) : start <= b /\ b < end}

\* a chunk that starts at part_number * chunkSize
chunkFromPartNumber(s, part) ==
  LET sentSize == part * ChunkUnits
  IN slice(s.fileSize, sentSize, sentSize + ChunkUnits)

\* the bytes uploadNextChunk sends for a part
chunk(s, part) ==
  LET sentSize == (part - 1) * ChunkUnits
  IN slice(s.fileSize, sentSize, sentSize + ChunkUnits)

\* Math.round(sent / total * 100)
RoundPercent(sent, total) == (200 * sent + total) \div (2 * total)

\* Math.floor(loaded / total * 100)
FloorPercent(loaded, total) == (100 * loaded) \div total

onProgress(s, percentage) == [s EXCEPT !.reports = Append(@, percentage)]

(***************************************************************************)
(* handleChunkProgress: the listener bound to the part's key for the       *)
(* events "progress" (on xhr.upload), "error", "abort" and "loadend".      *)
(***************************************************************************)
handleChunkProgress(s, partNumber, type, loaded) ==
  LET c1 == IF type \in {"progress", "error", "abort"}
            THEN [s.progressCache EXCEPT ![partNumber] = loaded]
            ELSE s.progressCache
      up == IF type = "uploaded"
            THEN s.uploadedSize + (IF c1[partNumber] = -1 THEN 0 ELSE c1[partNumber])
            ELSE s.uploadedSize
      c2 == IF type = "uploaded" THEN [c1 EXCEPT ![partNumber] = -1] ELSE c1
      inProgress == SumOver(c2, {k \in DOMAIN c2 : c2[k] # -1})
      sent == Min(up + inProgress, s.fileSize)
      percentage == RoundPercent(sent, s.fileSize)
  IN onProgress([s EXCEPT !.progressCache = c2, !.uploadedSize = up], percentage)

handleSinglePartProgress(s, lengthComputable, loaded) ==
  onProgress(s, IF lengthComputable THEN FloorPercent(loaded, s.fileSize) ELSE 0)

(***************************************************************************)
(* cleanup: session.delete("FileComponent", [componentId]).  `next` names  *)
(* what awaits the response: "handleError" (retry exhaustion),             *)
(* "onabort" or "onerror" (single transfer).                               *)
(***************************************************************************)
cleanup(s, next, error) ==
  [Log(s, "delete", "", <<>>) EXCEPT
     !.rpcs = Append(@, [kind |-> "delete", next |-> next, error |-> error])]

(***************************************************************************)
(* completeUpload up to its await: sorts uploadedParts in place and issues *)
(* the batched call.  `caller` is "single" (awaited inside the try of      *)
(* singlePartUpload) or "multi" (called by uploadNextChunk, not awaited).  *)
(***************************************************************************)
SortParts(seq) == SortSeq(seq, LAMBDA a, b : a < b)

completeUpload(s, caller) ==
  LET sorted == SortParts(s.uploadedParts)
      s1 == [s EXCEPT !.uploadedParts = sorted]
      op == IF Len(sorted) > 0 THEN "complete_multipart_upload" ELSE ""
  IN [Log(s1, "call", op, sorted) EXCEPT
        !.rpcs = Append(@, [kind |-> "complete", next |-> caller, error |-> ""])]

(***************************************************************************)
(* One XHR of a part ends by xhr.abort(): the "abort" listener             *)
(* (handleChunkProgress, loaded 0), then xhr.onabort (throwXHRError:       *)
(* delete the registry key, reject), then the "loadend" listener.          *)
(* abort() on an XHR that is not open fires nothing.                       *)
(***************************************************************************)
throwXHRError(s, part, live, retry, error) ==
  [s EXCEPT !.activeConnections = @ \ {part - 1},
            !.queue = IF live
                      THEN Append(@, [kind |-> "reject", part |-> part,
                                      retry |-> retry, error |-> error])
                      ELSE @]

xhrAbort(s, part) ==
  LET c == s.conn[part] IN
  IF c.st # "open" THEN s
  ELSE LET s1 == handleChunkProgress(s, part - 1, "abort", 0)
           s2 == throwXHRError(s1, part, c.live, c.retry, "Upload canceled by user or system")
           s3 == [s2 EXCEPT !.conn[part] = [c EXCEPT !.st = "done", !.live = FALSE]]
       IN handleChunkProgress(s3, part - 1, "loadend", 0)

RECURSIVE abortEach(_, _)
abortEach(s, keys) ==
  IF keys = <<>> THEN s
  ELSE abortEach(xhrAbort(s, keys[1] + 1), Tail(keys))

(***************************************************************************)
(* uploadFile's xhr.onabort up to its await: onAborted, then cleanup.      *)
(***************************************************************************)
singleOnAbort(s) ==
  cleanup(Log([s EXCEPT !.xhr = "done"], "onAborted", "", <<>>), "onabort", "UPLOAD_ABORTED")

\* an abort that reports the cancellation when it finds no connection open
abortReportingIdle(s) ==
  IF s.xhr # "open" /\ s.activeConnections = {}
  THEN Log(s, "onAborted", "", <<>>)
  ELSE abortEach(IF s.xhr = "open" THEN singleOnAbort(s) ELSE s,
                 SortedKeys(s.activeConnections))

abort(s) ==
  LET s1 == IF s.xhr = "open" THEN singleOnAbort(s) ELSE s
  IN abortEach(s1, SortedKeys(s1.activeConnections))

(***************************************************************************)
(* uploadNextChunk (the drive step) and uploadFileChunk, which calls it    *)
(* back through onUploadChunkStart before sending.  onLine is              *)
(* window.navigator.onLine during the task.                                *)
(***************************************************************************)
RECURSIVE uploadNextChunk(_, _, _)
RECURSIVE uploadFileChunk(_, _, _, _)

uploadFileChunk(s, part, retry, onLine) ==
  LET old == s.conn[part]
      s1 == IF onLine THEN s
            ELSE [Use(s, "offline") EXCEPT
                    !.queue = Append(@, [kind |-> "reject", part |-> part,
                                         retry |-> retry, error |-> "System is offline"])]
      s2 == [s1 EXCEPT
               !.orphans = IF old.st = "open"
                           THEN Append(@, [part |-> part, loaded |-> old.loaded])
                           ELSE @,
               !.conn[part] = [st |-> "open", live |-> onLine, retry |-> retry, loaded |-> 0,
                               chunk |-> chunk(s, part)],
               !.activeConnections = @ \cup {part - 1}]
  IN uploadNextChunk(s2, 0, onLine)

uploadNextChunk(s, retry, onLine) ==
  LET active == Cardinality(s.activeConnections) IN
  IF active >= maxConcurrentConnections THEN s
  ELSE IF Len(s.parts) = 0
       THEN (IF active = 0 THEN completeUpload(s, "multi") ELSE s)
       ELSE LET part == s.parts[Len(s.parts)]
            IN uploadFileChunk([s EXCEPT !.parts = SubSeq(@, 1, Len(@) - 1)],
                               part, retry, onLine)

(***************************************************************************)
(* The .catch of uploadNextChunk for a part whose upload promise rejected. *)
(* The timer of a part holds the value of `retry` after `retry++`; the     *)
(* delay it was set with is wait(2 ** retry * 100).                        *)
(***************************************************************************)
BackOff(retry) == 2 ^ retry * 100

onChunkRejected(s, part, retry, error) ==
  IF retry <= MaxRetry
  THEN [s EXCEPT !.timer[part] = retry + 1]
  ELSE cleanup(abort(s), "handleError", error)

(***************************************************************************)
(* Promise reactions run in order until none is left: a resolved part      *)
(* upload runs uploadNextChunk(), a rejected one runs the .catch.          *)
(***************************************************************************)
RECURSIVE runMicrotasks(_, _)
runMicrotasks(s, onLine) ==
  IF s.queue = <<>> THEN s
  ELSE LET t == Head(s.queue)
           s1 == [s EXCEPT !.queue = Tail(@)]
       IN runMicrotasks(IF t.kind = "resolve"
                        THEN uploadNextChunk(s1, 0, onLine)
                        ELSE onChunkRejected(s1, t.part, t.retry, t.error),
                        onLine)

(***************************************************************************)
(* The constructor.                                                        *)
(***************************************************************************)
Ceil(a, b) == (a + b - 1) \div b

\* a plan that takes no notice of options.xhr
PlannedPartsIgnoringXhr(size, hasXhr) ==
  LET n == Ceil(size, ChunkUnits)
  IN IF n <= 2 THEN 0 ELSE n

\* a plan that collapses to Single only below two parts
PlannedPartsFromTwo(size, hasXhr) ==
  LET n == Ceil(size, ChunkUnits)
  IN IF n <= 1 \/ hasXhr THEN 0 ELSE n

\* this.numParts after the constructor, 0 standing for null
PlannedParts(size, hasXhr) ==
  LET n == Ceil(size, ChunkUnits)
  IN IF n <= 2 \/ hasXhr THEN 0 ELSE n

NoUse == [fail |-> 0, offline |-> 0, abort |-> 0, signal |-> 0, stuck |-> 0,
          progress |-> 0, rpcFail |-> 0, offlineEvent |-> 0]

\* the first values of the fields (the assignments after the name check)
Fields(size, hasXhr, hub, lim) ==
  /\ legacy = hasXhr
  /\ fileSize = size
  /\ numParts = PlannedParts(size, hasXhr)
  /\ xhr = IF hasXhr THEN "unsent" ELSE "none"
  /\ singleLoaded = 0
  /\ xhrStatus = 0
  /\ parts = <<>>
  /\ activeConnections = {}
  /\ conn = [p \in 1..Ceil(size, ChunkUnits) |-> NoConn]
  /\ orphans = <<>>
  /\ timer = [p \in 1..Ceil(size, ChunkUnits) |-> -1]
  /\ uploadedParts = <<>>
  /\ uploadedSize = 0
  /\ progressCache = [k \in 0..(Ceil(size, ChunkUnits) - 1) |-> -1]
  /\ rpcs = <<>>
  /\ calls = <<>>
  /\ lastProgress = -1
  /\ reports = <<>>
  /\ eventHub = hub
  /\ used = NoUse
  /\ limit = lim

(***************************************************************************)
(* The name check of the constructor.  A name is absent (undefined) or a   *)
(* string; normalizeString is imported from util/normalize_string.js and   *)
(* is taken to be any function from non-empty names to names, fixed for    *)
(* the run (request.normalize).                                            *)
(***************************************************************************)
Absent == "<undefined>"

Names == {"", "a", "b"}

NonEmptyNames == Names \ {""}

normalizeString(s, value) == s.request.normalize[value]

\* options.name ?? file.name
componentName(s) ==
  IF s.request.name # Absent THEN s.request.name ELSE s.request.fileName

\* normalizedFileName; Absent stands for a variable left undefined
normalizedFileName(s) ==
  IF componentName(s) \notin {Absent, ""}
  THEN normalizeString(s, componentName(s))
  ELSE Absent

\* a constructor that registers handleAbortSignal before it checks the name
constructorListeningFirst(s) ==
  IF normalizedFileName(s) \in {Absent, ""}
  THEN [s EXCEPT !.pc = "thrown", !.listening = s.request.signal]
  ELSE [s EXCEPT !.pc = "new", !.listening = s.request.signal]

\* new Uploader(session, file, options): throws, or builds the object and
\* registers handleAbortSignal if options.signal is given
constructor(s) ==
  IF normalizedFileName(s) \in {Absent, ""}
  THEN [s EXCEPT !.pc = "thrown"]
  ELSE [s EXCEPT !.pc = "new", !.listening = s.request.signal]

\* a caller that names the upload and passes a signal
NamedRequest ==
  [name |-> "a", fileName |-> Absent, normalize |-> [n \in NonEmptyNames |-> n],
   signal |-> TRUE]

\* the state after a constructor call that returned
Constructed(size, hasXhr, hub, lim) ==
  /\ request = NamedRequest
  /\ listening = TRUE
  /\ pc = "new"
  /\ Fields(size, hasXhr, hub, lim)

Apply(s) ==
  /\ request' = s.request
  /\ listening' = s.listening
  /\ pc' = s.pc
  /\ legacy' = s.legacy
  /\ fileSize' = s.fileSize
  /\ numParts' = s.numParts
  /\ xhr' = s.xhr
  /\ singleLoaded' = s.singleLoaded
  /\ xhrStatus' = s.status
  /\ parts' = s.parts
  /\ activeConnections' = s.activeConnections
  /\ conn' = s.conn
  /\ orphans' = s.orphans
  /\ timer' = s.timer
  /\ uploadedParts' = s.uploadedParts
  /\ uploadedSize' = s.uploadedSize
  /\ progressCache' = s.progressCache
  /\ rpcs' = s.rpcs
  /\ calls' = s.calls
  /\ lastProgress' = s.lastProgress
  /\ reports' = s.reports
  /\ eventHub' = s.eventHub
  /\ used' = s.used
  /\ limit' = s.limit

WithinBounds(s) == \A k \in DOMAIN s.used : s.used[k] <= s.limit[k]

Step(s) == WithinBounds(s) /\ Apply(s)

Construct ==
  /\ pc = "unbuilt"
  /\ Step(constructor(Cur))

(***************************************************************************)
(* start(): the preflight call and what follows its response.              *)
(***************************************************************************)
uploadFile(s) == [s EXCEPT !.xhr = "open"]

Start ==
  /\ pc = "new"
  /\ Step(Log([Cur EXCEPT !.pc = "preflight"], "call", "get_upload_metadata", <<>>))

startAfterPreflight(s, onLine) ==
  IF s.numParts # 0
  THEN runMicrotasks(
         uploadNextChunk([s EXCEPT !.pc = "running",
                                   !.parts = [i \in 1..s.numParts |-> i]], 0, onLine),
         onLine)
  ELSE uploadFile([s EXCEPT !.pc = "running"])

PreflightOk ==
  /\ pc = "preflight"
  /\ \E onLine \in BOOLEAN : Step(startAfterPreflight(Cur, onLine))

\* a start() that goes on to the transfer although the preflight call was rejected
PreflightFailThenTransfer ==
  /\ pc = "preflight"
  /\ \E onLine \in BOOLEAN :
       Step([startAfterPreflight(Cur, onLine) EXCEPT !.pc = "rejected"])

PreflightFail ==
  /\ pc = "preflight"
  /\ Step([Cur EXCEPT !.pc = "rejected"])

(***************************************************************************)
(* Events of the XHR most recently created for a part.                     *)
(***************************************************************************)
\* xhr.upload "progress": loaded bytes of this part's body so far
chunkProgress(s, p, loaded) ==
  handleChunkProgress([Use(s, "progress") EXCEPT !.conn[p].loaded = loaded],
                      p - 1, "progress", loaded)

ChunkProgress ==
  \E p \in DOMAIN conn \ limit.slow :
    /\ conn[p].st = "open"
    /\ \E loaded \in (conn[p].loaded + 1)..PartSize(Cur, p) :
         Step(chunkProgress(Cur, p, loaded))

\* xhr.onreadystatechange at readyState 4 with a response, then "loadend"
chunkResponse(s, p, status, eTag, onLine) ==
  LET c == s.conn[p] IN
  IF status = 200 /\ eTag
  THEN LET s1 == [s EXCEPT
                    !.uploadedParts = Append(@, p),
                    !.queue = IF c.live
                              THEN Append(@, [kind |-> "resolve", part |-> p,
                                              retry |-> c.retry, error |-> ""])
                              ELSE @,
                    !.activeConnections = @ \ {p - 1},
                    !.conn[p] = [c EXCEPT !.st = "done", !.live = FALSE]]
       IN handleChunkProgress(runMicrotasks(s1, onLine), p - 1, "loadend", 0)
  ELSE handleChunkProgress([Use(s, "stuck") EXCEPT !.conn[p].st = "done"],
                           p - 1, "loadend", 0)

ChunkResponse ==
  \E p \in DOMAIN conn \ limit.slow :
    /\ conn[p].st = "open"
    /\ \E status \in {200, 500}, eTag \in BOOLEAN, onLine \in BOOLEAN :
         Step(chunkResponse(Cur, p, status, eTag, onLine))

\* a network error: the "error" listener, xhr.onerror, then "loadend"
chunkError(s, p) ==
  LET c == s.conn[p]
      s1 == handleChunkProgress(Use(s, "fail"), p - 1, "error", 0)
      s2 == throwXHRError(s1, p, c.live, c.retry, "Upload chunk error")
      s3 == [s2 EXCEPT !.conn[p] = [c EXCEPT !.st = "done", !.live = FALSE]]
  IN handleChunkProgress(runMicrotasks(s3, TRUE), p - 1, "loadend", 0)

ChunkError ==
  \E p \in DOMAIN conn \cap limit.flaky :
    /\ conn[p].st = "open"
    /\ Step(chunkError(Cur, p))

(***************************************************************************)
(* Events of an XHR that is still open after a later XHR was created for   *)
(* the same part: its handlers act on the same registry key.               *)
(***************************************************************************)
orphanProgress(s, i, loaded) ==
  handleChunkProgress([Use(s, "progress") EXCEPT !.orphans[i].loaded = loaded],
                      s.orphans[i].part - 1, "progress", loaded)

OrphanProgress ==
  \E i \in DOMAIN orphans :
    \E loaded \in (orphans[i].loaded + 1)..PartSize(Cur, orphans[i].part) :
      Step(orphanProgress(Cur, i, loaded))

orphanResponse(s, i, status, eTag) ==
  LET p == s.orphans[i].part
      s1 == [s EXCEPT !.orphans = Remove(@, i)]
  IN IF status = 200 /\ eTag
     THEN handleChunkProgress(
            [s1 EXCEPT !.uploadedParts = Append(@, p),
                       !.activeConnections = @ \ {p - 1}],
            p - 1, "loadend", 0)
     ELSE handleChunkProgress(Use(s1, "stuck"), p - 1, "loadend", 0)

OrphanResponse ==
  \E i \in DOMAIN orphans :
    \E status \in {200, 500}, eTag \in BOOLEAN :
      Step(orphanResponse(Cur, i, status, eTag))

orphanEnd(s, i, type) ==
  LET p == s.orphans[i].part
      s1 == handleChunkProgress([s EXCEPT !.orphans = Remove(@, i)], p - 1, type, 0)
      s2 == throwXHRError(s1, p, FALSE, 0, "")
  IN handleChunkProgress(s2, p - 1, "loadend", 0)

OrphanError ==
  \E i \in DOMAIN orphans :
    /\ orphans[i].part \in limit.flaky
    /\ Step(orphanEnd(Use(Cur, "fail"), i, "error"))

(***************************************************************************)
(* The back-off timer of a part fires: wait(...).then of uploadNextChunk.  *)
(***************************************************************************)
timerFired(s, p, onLine) ==
  LET s1 == [s EXCEPT !.timer[p] = -1, !.parts = Append(@, p)]
  IN runMicrotasks(uploadNextChunk(s1, s.timer[p], onLine), onLine)

TimerFired ==
  \E p \in DOMAIN timer :
    /\ timer[p] # -1
    /\ \E onLine \in BOOLEAN : Step(timerFired(Cur, p, onLine))

(***************************************************************************)
(* abort() called by the user, or by the listener of options.signal.       *)
(***************************************************************************)
Abort ==
  /\ pc \notin {"unbuilt", "thrown"}
  /\ used.abort < limit.abort
  /\ Step(runMicrotasks(abort(Use(Cur, "abort")), TRUE))

\* an AbortSignal fires its "abort" event once
AbortSignal ==
  /\ listening
  /\ used.signal = 0
  /\ Step(runMicrotasks(abort(Use([Cur EXCEPT !.listening = FALSE], "signal")), TRUE))

(***************************************************************************)
(* window "offline": the abortXHR listener of every XHR that is still      *)
(* open calls xhr.abort().                                                 *)
(***************************************************************************)
RECURSIVE abortOrphans(_)
abortOrphans(s) ==
  IF s.orphans = <<>> THEN s ELSE abortOrphans(orphanEnd(s, 1, "abort"))

offlineEvent(s) ==
  abortEach(abortOrphans(s),
            SortedKeys({p - 1 : p \in {q \in DOMAIN s.conn : s.conn[q].st = "open"}}))

OfflineEvent ==
  /\ \E p \in DOMAIN conn : conn[p].st = "open"
  /\ Step(runMicrotasks(offlineEvent(Use(Cur, "offlineEvent")), TRUE))

(***************************************************************************)
(* Responses of the RPCs issued by completeUpload and cleanup.             *)
(***************************************************************************)
onError(s, error) == Log(s, "onError", error, <<>>)

\* a completeUpload that returns without calling onComplete
completeUploadDoneSilent(s) ==
  IF s.eventHub THEN Log(s, "publish", "", <<>>) ELSE s

\* a completeUpload that calls onComplete before it publishes the event
completeUploadDoneCallbackFirst(s) ==
  LET s1 == Log(s, "onComplete", "", <<>>)
  IN IF s.eventHub THEN Log(s1, "publish", "", <<>>) ELSE s1

\* completeUpload after its await
completeUploadDone(s) ==
  LET s1 == IF s.eventHub THEN Log(s, "publish", "", <<>>) ELSE s
  IN Log(s1, "onComplete", "", <<>>)

rpcResolved(s, i) ==
  LET r == s.rpcs[i]
      s1 == [s EXCEPT !.rpcs = Remove(@, i)]
  IN IF r.kind = "complete" THEN completeUploadDone(s1)
     ELSE IF r.next = "handleError" THEN onError(s1, r.error)
     ELSE onError(s1, r.error)      \* reject(...) reaches the catch of singlePartUpload

rpcRejected(s, i) ==
  LET r == s.rpcs[i]
      s1 == Use([s EXCEPT !.rpcs = Remove(@, i)], "rpcFail")
  IN IF r.kind = "complete"
     THEN (IF r.next = "single" THEN onError(s1, "RPC failed")
           ELSE Log(s1, "unhandledRejection", "RPC failed", <<>>))
     ELSE IF r.next = "handleError" THEN onError(s1, r.error)
     ELSE Log(s1, "unhandledRejection", "RPC failed", <<>>)

RpcResolved == \E i \in DOMAIN rpcs : Step(rpcResolved(Cur, i))

RpcRejected == \E i \in DOMAIN rpcs : Step(rpcRejected(Cur, i))

(***************************************************************************)
(* Events of the single transfer's XHR (uploadFile).                       *)
(***************************************************************************)
singleProgress(s, lengthComputable, loaded) ==
  handleSinglePartProgress([Use(s, "progress") EXCEPT !.singleLoaded = loaded],
                           lengthComputable, loaded)

SingleProgress ==
  /\ xhr = "open"
  /\ \E loaded \in (singleLoaded + 1)..fileSize, lengthComputable \in BOOLEAN :
       Step(singleProgress(Cur, lengthComputable, loaded))

\* xhr.onload, then the rest of singlePartUpload
\* `Failed to upload file: ${this.xhr.status}`
FailedToUpload(s) == "Failed to upload file: " \o ToString(s.status)

\* an onload whose resolve(...) takes effect after its reject(...)
singleLoadThenResolve(s, code) ==
  LET s1 == [s EXCEPT !.xhr = "done", !.status = code]
      s2 == IF code >= 400 THEN onError(s1, FailedToUpload(s1)) ELSE s1
  IN completeUpload(s2, "single")

\* xhr.onload, and what singlePartUpload does when uploadFile settles
singleLoad(s, code) ==
  LET s1 == [s EXCEPT !.xhr = "done", !.status = code]
  IN IF code >= 400
     THEN onError(s1, FailedToUpload(s1))
     ELSE completeUpload(s1, "single")

SingleLoad ==
  /\ xhr = "open"
  /\ \E code \in {200, 400, 500} : Step(singleLoad(Cur, code))

\* xhr.onerror up to its await
singleOnError(s) ==
  cleanup([Use(s, "fail") EXCEPT !.xhr = "done"], "onerror", FailedToUpload(s))

SingleError ==
  /\ xhr = "open"
  /\ Step(singleOnError(Cur))

(***************************************************************************)
(* Specifications.                                                         *)
(*   SpecSingle : sessions whose size plans a single transfer              *)
(*   Spec       : multipart sessions of 3 and of 7 parts                   *)
(*   SpecAny    : the sessions of both                                     *)
(*   SpecNew    : the constructor call and the start of a session          *)
(***************************************************************************)
Preflight == Start \/ PreflightOk \/ PreflightFail

Cancel == Abort \/ AbortSignal

Rpc == RpcResolved \/ RpcRejected

PartEvents ==
  \/ ChunkProgress \/ ChunkResponse \/ ChunkError
  \/ OrphanProgress \/ OrphanResponse \/ OrphanError
  \/ TimerFired \/ OfflineEvent

SingleEvents == SingleProgress \/ SingleLoad \/ SingleError

(***************************************************************************)
(* Environments.  A run is bounded by what its environment may produce:    *)
(* `flaky` are the parts whose connections may end in a network error,     *)
(* `slow` the parts whose connections stay in flight for the whole of the  *)
(* observed run, the numbers are the most events of each kind.             *)
(***************************************************************************)
Quiet == NoUse @@ [flaky |-> {}, slow |-> {}]

MinMultipart == 3        \* the smallest part count that is not collapsed to Single

SingleEnv ==
  [Quiet EXCEPT !.fail = 1, !.abort = MaxAborts, !.signal = 1,
                !.progress = MaxProgress, !.rpcFail = MaxRpcFailures]

RetryEnv == [Quiet EXCEPT !.flaky = 1..MaxFlaky, !.fail = MaxFailures]

ProgressEnv == [Quiet EXCEPT !.flaky = 1..MaxFlaky, !.fail = 1, !.progress = MaxProgress]

OfflineEnv == [Quiet EXCEPT !.offline = MaxOffline]

OrphanEnv == [Quiet EXCEPT !.offline = 1, !.flaky = {1}, !.fail = 2, !.progress = 1]

CancelEnv ==
  [Quiet EXCEPT !.abort = MaxAborts, !.signal = 1, !.offlineEvent = MaxOfflineEvents]

ResponseEnv == [Quiet EXCEPT !.stuck = MaxStuck, !.rpcFail = MaxRpcFailures]

PoolEnv ==
  [Quiet EXCEPT !.flaky = {maxConcurrentConnections + 1}, !.fail = 1, !.offline = 1,
                !.slow = 1..(maxConcurrentConnections - 1)]

\* two parts more than the ceiling: one of them fails while the others of the
\* first round stay in flight
CeilingEnv ==
  [Quiet EXCEPT !.flaky = {maxConcurrentConnections + 1}, !.fail = 1,
                !.slow = 1..(maxConcurrentConnections - 1)]

\* part 1 runs out of retries after one of its dispatches was made offline
ExhaustEnv ==
  [Quiet EXCEPT !.flaky = {1}, !.fail = MaxRetry + 1, !.offline = 1,
                !.slow = 2..MinMultipart]

\* files of at most two parts, and larger files given with options.xhr
InitSingle ==
  \E size \in 1..(MinMultipart * ChunkUnits), hasXhr \in BOOLEAN, hub \in BOOLEAN :
    /\ Ceil(size, ChunkUnits) > 2 => hasXhr
    /\ Constructed(size, hasXhr, hub, SingleEnv)

NextSingle == Preflight \/ Cancel \/ Rpc \/ SingleEvents

SpecSingle == InitSingle /\ [][NextSingle]_vars

Init ==
  \/ \E lim \in {ProgressEnv, OfflineEnv, OrphanEnv, CancelEnv} :
       Constructed(MinMultipart * ChunkUnits, FALSE, FALSE, lim)
  \/ Constructed(MinMultipart * ChunkUnits - 1, FALSE, FALSE, RetryEnv)
  \/ \E hub \in BOOLEAN :
       Constructed(MinMultipart * ChunkUnits - 1, FALSE, hub, ResponseEnv)
  \/ Constructed((maxConcurrentConnections + 1) * ChunkUnits, FALSE, FALSE, PoolEnv)
  \/ Constructed((maxConcurrentConnections + 2) * ChunkUnits, FALSE, FALSE, CeilingEnv)
  \/ Constructed(MinMultipart * ChunkUnits, FALSE, FALSE, ExhaustEnv)

Next == Preflight \/ Cancel \/ Rpc \/ PartEvents

Spec == Init /\ [][Next]_vars

\* sessions of either kind
InitAny == Init \/ InitSingle

NextAny == Preflight \/ Cancel \/ Rpc \/ PartEvents \/ SingleEvents

SpecAny == InitAny /\ [][NextAny]_vars

\* from the constructor call to the first connections, for any names given
NewEnv == [Quiet EXCEPT !.abort = MaxAborts, !.signal = 1]

Requests ==
  [name : Names \cup {Absent}, fileName : Names \cup {Absent},
   normalize : [NonEmptyNames -> Names], signal : BOOLEAN]

InitNew ==
  /\ request \in Requests
  /\ listening = FALSE
  /\ pc = "unbuilt"
  /\ \E size \in {1, MinMultipart * ChunkUnits} : Fields(size, FALSE, FALSE, NewEnv)

NextNew == Construct \/ Preflight \/ Cancel

SpecNew == InitNew /\ [][NextNew]_vars

(***************************************************************************)
(* What the log of a run shows.                                            *)
(***************************************************************************)
Count(name) == Cardinality({i \in DOMAIN calls : calls[i].name = name})

Manifests ==
  {calls[i].parts : i \in {j \in DOMAIN calls : calls[j].code = "complete_multipart_upload"}}

Completions ==
  Cardinality({i \in DOMAIN calls : calls[i].code = "complete_multipart_upload"})

Occurrences(seq, x) == Cardinality({i \in DOMAIN seq : seq[i] = x})

Multipart == numParts # 0

\* nothing is pending: no connection, timer or RPC can produce another event
Quiescent ==
  /\ pc \in {"running", "rejected"}
  /\ xhr # "open"
  /\ \A p \in DOMAIN conn : conn[p].st # "open" /\ timer[p] = -1
  /\ orphans = <<>>
  /\ rpcs = <<>>

(***************************************************************************)
(* C1: onComplete and onError are mutually exclusive: no run of a session  *)
(* invokes both, in either order.                                          *)
(***************************************************************************)
C1_CompleteErrorExclusive == ~(Count("onComplete") > 0 /\ Count("onError") > 0)

(***************************************************************************)
(* C2: in a multipart session the completion call                          *)
(* (complete_multipart_upload) is issued at most once and onComplete       *)
(* fires at most once.                                                     *)
(***************************************************************************)
C2_CompleteAtMostOnce ==
  Multipart => (Completions <= 1 /\ Count("onComplete") <= 1)

(***************************************************************************)
(* C3: every manifest passed to complete_multipart_upload holds each part  *)
(* number 1..N exactly once.                                               *)
(***************************************************************************)
C3_ManifestHoldsEveryPartOnce ==
  \A m \in Manifests :
    /\ Len(m) = numParts
    /\ \A p \in 1..numParts : Occurrences(m, p) = 1

(***************************************************************************)
(* C4: every manifest passed to complete_multipart_upload is sorted        *)
(* strictly ascending by part_number.                                      *)
(***************************************************************************)
C4_ManifestStrictlyAscending ==
  \A m \in Manifests : \A i \in 1..(Len(m) - 1) : m[i] < m[i + 1]

(***************************************************************************)
(* C5: a part that failed at most 6 times and then succeeded has exactly   *)
(* one PartResult: its part_number is recorded in uploadedParts once.      *)
(***************************************************************************)
Succeeded(p) == conn[p].st = "done" /\ ~conn[p].live /\ p \notin activeConnections
                  /\ timer[p] = -1 /\ Occurrences(parts, p) = 0
                  /\ Occurrences(uploadedParts, p) > 0

C5_OnePartResultPerPart ==
  \A p \in DOMAIN conn :
    (Succeeded(p) /\ conn[p].retry <= MaxRetry) => Occurrences(uploadedParts, p) = 1

(***************************************************************************)
(* C6: retry exhaustion triggers exactly one cleanup delete and exactly    *)
(* one onError for the whole session: a multipart session never issues a   *)
(* second delete nor a second onError.                                     *)
(***************************************************************************)
C6_OneCleanupOneError ==
  Multipart => (Count("delete") <= 1 /\ Count("onError") <= 1)

(***************************************************************************)
(* C7: the number of part connections that are open at the same time       *)
(* never exceeds the ceiling.                                              *)
(***************************************************************************)
OpenConnections ==
  Cardinality({p \in DOMAIN conn : conn[p].st = "open"}) + Len(orphans)

C7_OpenConnectionsWithinCeiling == OpenConnections <= maxConcurrentConnections

(***************************************************************************)
(* C8: the percentages passed to onProgress in a multipart session never   *)
(* decrease.                                                               *)
(***************************************************************************)
Reported == IF lastProgress = -1 THEN reports ELSE <<lastProgress>> \o reports

C8_ProgressMonotonic ==
  Multipart => \A i \in 1..(Len(Reported) - 1) : Reported[i] <= Reported[i + 1]

(***************************************************************************)
(* C9: onProgress is called with 100 in a multipart session only when      *)
(* every part has committed (its PartResult is recorded).                  *)
(***************************************************************************)
AllCommitted == \A p \in 1..numParts : Occurrences(uploadedParts, p) > 0

C9_HundredOnlyWhenAllCommitted ==
  (Multipart /\ \E i \in DOMAIN reports : reports[i] = 100) => AllCommitted

(***************************************************************************)
(* C10: a single transfer cancelled while its connection is open ends      *)
(* with onAborted invoked once, then onError invoked once with errorCode   *)
(* UPLOAD_ABORTED, and onComplete never invoked.  Stated of the runs       *)
(* that have ended: nothing is pending any more.                           *)
(***************************************************************************)
Index(name) == CHOOSE i \in DOMAIN calls : calls[i].name = name

C10_SingleAbortReported ==
  (~Multipart /\ Quiescent /\ Count("onAborted") > 0) =>
     /\ Count("onAborted") = 1
     /\ Count("onError") = 1
     /\ calls[Index("onError")].code = "UPLOAD_ABORTED"
     /\ Index("onAborted") < Index("onError")
     /\ Count("onComplete") = 0

(***************************************************************************)
(* Cancellation.  A step is a cancellation when abort() runs in it: the    *)
(* caller's call or the listener of options.signal.  It is mid-transfer    *)
(* when the registry holds a connection that is still open.  xhr.abort()   *)
(* dispatches "abort" synchronously and the rejections it causes are       *)
(* handled before the next event, so what a cancellation does to the       *)
(* session it has done by the end of its step.                             *)
(***************************************************************************)
Cancelling == used'.abort + used'.signal > used.abort + used.signal

ActiveOpen == {p \in DOMAIN conn : conn[p].st = "open" /\ (p - 1) \in activeConnections}

CancelMidTransfer == Multipart /\ pc = "running" /\ ActiveOpen # {} /\ Cancelling

(***************************************************************************)
(* C11: a multipart session cancelled while part connections are active    *)
(* invokes onAborted exactly once, then onError exactly once with          *)
(* UPLOAD_ABORTED, and never onComplete.  Stated of the cancelling step:   *)
(* it invokes onAborted once, issues the delete whose response leads to    *)
(* onError(UPLOAD_ABORTED), and leaves no completion call pending.         *)
(***************************************************************************)
AwaitsAbortReport ==
  \E i \in DOMAIN rpcs : rpcs[i].kind = "delete" /\ rpcs[i].error = "UPLOAD_ABORTED"

C11_MultipartAbortReported ==
  [][CancelMidTransfer =>
       /\ Count("onAborted")' = 1
       /\ AwaitsAbortReport' \/ Count("onError")' = 1
       /\ Count("onComplete")' = 0]_vars

(***************************************************************************)
(* C12: cancelling a multipart transfer aborts every connection of the     *)
(* registry, then issues session.delete("FileComponent", [componentId]),   *)
(* and the transfer does not resume: by the end of the cancelling step no  *)
(* registry connection is open, one more delete has been issued, and no    *)
(* part is scheduled to be sent again.                                     *)
(***************************************************************************)
Scheduled == {p \in DOMAIN timer : timer[p] # -1}

C12_CancelAbortsDeletesStops ==
  [][CancelMidTransfer =>
       /\ ActiveOpen' = {}
       /\ Count("delete")' = Count("delete") + 1
       /\ Scheduled' = {}]_vars

(***************************************************************************)
(* C13: cleanup is idempotent: whatever triggers it and however often      *)
(* (abort() and the signal listener, repeated abort(), several parts       *)
(* running out of retries), one session issues the delete of its           *)
(* component at most once.                                                 *)
(***************************************************************************)
C13_DeleteAtMostOnce == Count("delete") <= 1

(***************************************************************************)
(* C14: abort() after the session has completed (onComplete invoked) is a  *)
(* no-op: the step invokes no callback, issues no delete nor any other     *)
(* RPC and leaves the session as it was, however often it is repeated.     *)
(***************************************************************************)
SessionState ==
  <<pc, xhr, singleLoaded, xhrStatus, parts, activeConnections, conn, orphans, timer,
    uploadedParts, uploadedSize, progressCache, rpcs, calls>>

C14_AbortAfterCompleteNoOp ==
  [][(Cancelling /\ Count("onComplete") > 0) =>
       (SessionState' = SessionState /\ reports' = <<>>)]_vars

(***************************************************************************)
(* C15: a started session runs to completion or failure.  Stated of the    *)
(* runs in which every RPC and every connection has had its response and   *)
(* no timer is pending: such a session has invoked onComplete or onError.  *)
(***************************************************************************)
Started == pc \in {"preflight", "running", "rejected"}

C15_StartedSessionEnds ==
  (Started /\ Quiescent) => (Count("onComplete") > 0 \/ Count("onError") > 0)

(***************************************************************************)
(* C16: every failure after start() reaches onError and none is lost as    *)
(* an unreported rejection.  A failure has occurred when the preflight     *)
(* call was rejected, when an RPC of the session was rejected, or when     *)
(* cleanup was started; once nothing is pending any more onError has been  *)
(* invoked, and no rejection is ever left without a handler.               *)
(***************************************************************************)
FailureOccurred == pc = "rejected" \/ used.rpcFail > 0 \/ Count("delete") > 0

C16_EveryFailureReported ==
  /\ Count("unhandledRejection") = 0
  /\ (Quiescent /\ FailureOccurred) => Count("onError") > 0

(***************************************************************************)
(* C17: when the delete issued by cleanup is rejected, onError is still    *)
(* invoked with the original error: the step in which a delete is          *)
(* rejected ends with onError(the error cleanup was started for).          *)
(***************************************************************************)
DeleteRejected(i) ==
  /\ rpcs[i].kind = "delete"
  /\ rpcs' = Remove(rpcs, i)
  /\ used'.rpcFail = used.rpcFail + 1

LastCall == calls[Len(calls)]

C17_DeleteFailureKeepsError ==
  [][\A i \in DOMAIN rpcs :
       DeleteRejected(i) =>
         /\ Len(calls') = Len(calls) + 1
         /\ LastCall'.name = "onError"
         /\ LastCall'.code = rpcs[i].error]_vars

(***************************************************************************)
(* C18: a rejected preflight call triggers cleanup: the step in which the  *)
(* preflight fails issues the delete of the session's component.           *)
(***************************************************************************)
PreflightFailed == pc = "preflight" /\ pc' = "rejected"

C18_PreflightFailureCleansUp ==
  [][PreflightFailed => Count("delete")' = Count("delete") + 1]_vars

(***************************************************************************)
(* C19: no payload is sent before the preflight has succeeded.  Until the  *)
(* session's one preflight call has returned successfully no connection    *)
(* exists, single or part; a session whose preflight call was rejected     *)
(* never opens one.                                                        *)
(***************************************************************************)
NoConnection ==
  /\ xhr \in {"none", "unsent"}
  /\ \A p \in DOMAIN conn : conn[p].st = "none"
  /\ orphans = <<>>
  /\ activeConnections = {}

PreflightCalls ==
  Cardinality({i \in DOMAIN calls : calls[i].code = "get_upload_metadata"})

C19_NoConnectionBeforePreflight ==
  /\ pc # "running" => NoConnection
  /\ ~NoConnection => PreflightCalls = 1

C19_Witness ==
  pc = "rejected" /\ PreflightCalls = 1 /\ used.abort + used.signal > 0 /\ NoConnection

(***************************************************************************)
(* C20: when no display name can be derived (options.name and the file's   *)
(* name are each absent, empty, or normalise to the empty string) the      *)
(* constructor throws: no object exists, no RPC and no connection has      *)
(* been issued, and handleAbortSignal is not registered on the signal.     *)
(***************************************************************************)
Unusable(n) == n \in {Absent, ""} \/ request.normalize[n] = ""

NoDisplayName == Unusable(request.name) /\ Unusable(request.fileName)

C20_NoNameThrowsFirst ==
  (pc # "unbuilt" /\ NoDisplayName) =>
     /\ pc = "thrown"
     /\ calls = <<>> /\ rpcs = <<>> /\ NoConnection
     /\ ~listening

C20_Witness == pc = "thrown" /\ NoDisplayName /\ request.signal /\ ~listening

(***************************************************************************)
(* C21: part_count = ceil(size / chunk size); a session whose part_count   *)
(* is at most 2 uses the Single strategy (declared part count null, no     *)
(* part scheduler: no backlog, no part connection, no back-off timer),     *)
(* and a session that runs the part scheduler has part_count > 2 and       *)
(* declares exactly that count.  The metadata answer is of the kind the    *)
(* declared count asks for.                                                *)
(***************************************************************************)
PartCount == Ceil(fileSize, ChunkUnits)

NoPartScheduler ==
  /\ parts = <<>> /\ activeConnections = {} /\ orphans = <<>>
  /\ uploadedParts = <<>>
  /\ \A p \in DOMAIN conn : conn[p].st = "none" /\ timer[p] = -1

CompletionCalls ==
  Cardinality({i \in DOMAIN calls :
                 calls[i].name = "call" /\ calls[i].code # "get_upload_metadata"})

C23_OneTerminalAction ==
  pc = "running" =>
    /\ CompletionCalls + Count("delete") <= 1
    /\ Quiescent => CompletionCalls + Count("delete") = 1

(***************************************************************************)
(* C24: a single transfer whose PUT succeeded has closed its one           *)
(* connection, issues the completion call once and then invokes            *)
(* onComplete once; it never invokes onError or onAborted and issues no    *)
(* delete.  Stated of the runs that have ended.                            *)
(***************************************************************************)
PutSucceeded == ~Multipart /\ pc = "running" /\ CompletionCalls > 0

SingleSuccessLog ==
  /\ xhr = "done"
  /\ CompletionCalls = 1
  /\ Count("onComplete") = 1
  /\ Index("call") < Index("onComplete")
  /\ calls[Len(calls)].name = "onComplete"
  /\ Count("onError") = 0 /\ Count("onAborted") = 0 /\ Count("delete") = 0

C24_SingleSuccess == (PutSucceeded /\ Quiescent) => SingleSuccessLog

(***************************************************************************)
(* C24, amended: the same of the runs whose completion call was answered   *)
(* successfully.                                                           *)
(***************************************************************************)
C24_SingleSuccessWhenCallSucceeds ==
  (PutSucceeded /\ Quiescent /\ used.rpcFail = 0) => SingleSuccessLog

C24_Witness ==
  PutSucceeded /\ Quiescent /\ used.rpcFail = 0 /\ Count("onComplete") = 1 /\ eventHub

(***************************************************************************)
(* C25: a multipart upload whose parts all succeed in the end invokes      *)
(* onComplete, and the completion call is issued only after every part     *)
(* has committed: a step that issues the completion call ends with all     *)
(* parts committed, and a run that has ended with all parts committed      *)
(* and no call rejected has invoked onComplete.                            *)
(***************************************************************************)
CompletionIssued == Multipart /\ CompletionCalls' > CompletionCalls

C25_CompleteAfterAllParts ==
  /\ [][CompletionIssued => AllCommitted']_vars
  /\ []((Multipart /\ Quiescent /\ AllCommitted /\ used.rpcFail = 0)
          => Count("onComplete") > 0)

(***************************************************************************)
(* C26: completeUpload is never called while a part is uncommitted: a      *)
(* step that issues the completion call leaves no part in the backlog, in  *)
(* flight, or waiting in a back-off timer.                                 *)
(***************************************************************************)
InFlight == {p \in DOMAIN conn : conn[p].st = "open"}

C26_CompleteWithNothingLeft ==
  [][CompletionIssued =>
       (parts' = <<>> /\ InFlight' = {} /\ orphans' = <<>> /\ Scheduled' = {})]_vars

(***************************************************************************)
(* C27: the retry budget is per part.  The attempt counter of a part is    *)
(* the number of its failures: its first connection is sent with counter   *)
(* 0, and each connection that replaces a failed one of the same,          *)
(* uncommitted part is sent with the counter of the failed one plus 1;     *)
(* no part is sent with a counter above the bound.                         *)
(***************************************************************************)
Uncommitted(p) == Occurrences(uploadedParts, p) = 0

FirstSent(p) == conn[p].st = "none" /\ conn'[p].st = "open"

SentAgain(p) == conn[p].st = "done" /\ Uncommitted(p) /\ conn'[p].st = "open"

C27_RetryBudgetPerPart ==
  [][\A p \in DOMAIN conn :
       /\ FirstSent(p) => conn'[p].retry = 0
       /\ SentAgain(p) => conn'[p].retry = conn[p].retry + 1
       /\ conn'[p].retry <= MaxRetry + 1]_vars

(***************************************************************************)
(* C28: a part that fails with attempt count <= 6 is scheduled with a      *)
(* delay of 2^attempt * 100 ms, is not in the backlog while it waits, and  *)
(* when the delay has elapsed it is back in the backlog or sent again.     *)
(***************************************************************************)
Delay(p) == BackOff(timer[p])

BackOffStarts(p) == timer[p] = -1 /\ timer'[p] # -1

BackOffEnds(p) == timer[p] # -1 /\ timer'[p] = -1

C28_BackOffThenRequeue ==
  [][\A p \in DOMAIN timer :
       /\ BackOffStarts(p) =>
            /\ Delay(p)' = 2 ^ (conn'[p].retry) * 100
            /\ Occurrences(parts', p) = 0
       /\ BackOffEnds(p) => (Occurrences(parts', p) = 1 \/ conn'[p].st = "open")]_vars

(***************************************************************************)
(* C29: when a part's attempt count exceeds 6, all in-flight connections   *)
(* are cancelled, then the cleanup delete is issued, and onError is        *)
(* invoked only when the delete has settled, with the error of the         *)
(* exhausted part.  The step that gives up leaves no connection open, has  *)
(* the delete pending and invokes no onError; the step in which that       *)
(* delete settles, either way, ends with onError(that error).              *)
(***************************************************************************)
GivesUp == Multipart /\ Count("delete")' = Count("delete") + 1

DeleteSettles(i) == rpcs[i].kind = "delete" /\ rpcs' = Remove(rpcs, i)

C29_GiveUpOrder ==
  [][/\ GivesUp =>
          /\ InFlight' = {} /\ orphans' = <<>>
          /\ rpcs'[Len(rpcs')].kind = "delete"
          /\ Count("onError")' = Count("onError")
     /\ \A i \in DOMAIN rpcs :
          (Multipart /\ DeleteSettles(i)) =>
             /\ Count("onError")' = Count("onError") + 1
             /\ LastCall'.name = "onError"
             /\ LastCall'.code = rpcs[i].error]_vars

(***************************************************************************)
(* C30: once a multipart session is fatal through retry exhaustion (its    *)
(* cleanup delete has been issued), no step opens a part connection,       *)
(* puts a part back into the backlog, schedules a retry, or issues the     *)
(* completion call.                                                        *)
(***************************************************************************)
Fatal == Multipart /\ Count("delete") > 0

Opens(p) == conn'[p].st = "open" /\ (conn[p].st # "open" \/ conn'[p].retry # conn[p].retry)

C30_NothingAfterFatal ==
  [][Fatal =>
       /\ \A p \in DOMAIN conn : ~Opens(p)
       /\ Len(parts') <= Len(parts)
       /\ Scheduled' \subseteq Scheduled
       /\ CompletionCalls' = CompletionCalls]_vars

(***************************************************************************)
(* C31: a part connection is deregistered on every exit path: no key of    *)
(* the registry belongs to a part whose connection has finished, so a      *)
(* finished connection occupies no slot.                                   *)
(***************************************************************************)
C31_RegistryHoldsOpenOnly ==
  \A p \in DOMAIN conn : (p - 1) \in activeConnections => conn[p].st = "open"

(***************************************************************************)
(* C32: a part response that is not 200, or is 200 without an ETag,        *)
(* fails the part: the step of such a response records no PartResult and   *)
(* hands the part to the retry handling, which schedules a retry or gives  *)
(* up.                                                                     *)
(***************************************************************************)
BadResponse == used'.stuck > used.stuck

C32_BadResponseFailsPart ==
  [][BadResponse =>
       /\ uploadedParts' = uploadedParts
       /\ Scheduled' # Scheduled \/ GivesUp]_vars

(***************************************************************************)
(* C33: a part dispatched while navigator.onLine is false fails before     *)
(* any connection is opened: the step creates no connection, adds no key   *)
(* to the registry and sends nothing.                                      *)
(***************************************************************************)
OfflineDispatch == used'.offline > used.offline

C33_OfflineFailsFast ==
  [][OfflineDispatch =>
       /\ \A p \in DOMAIN conn : ~Opens(p)
       /\ activeConnections' \subseteq activeConnections
       /\ Len(orphans') <= Len(orphans)]_vars

(***************************************************************************)
(* C34: a part number is never in the backlog and in the registry at the   *)
(* same time, and never has two connections open at once.                  *)
(***************************************************************************)
OpenFor(p) ==
  (IF conn[p].st = "open" THEN 1 ELSE 0)
    + Cardinality({i \in DOMAIN orphans : orphans[i].part = p})

C34_BacklogRegistryDisjoint ==
  \A p \in DOMAIN conn :
    /\ ~(Occurrences(parts, p) > 0 /\ (p - 1) \in activeConnections)
    /\ OpenFor(p) <= 1

(***************************************************************************)
(* C35: the step in which a part settles, by success or by failure, ends   *)
(* with the backlog empty or the registry at the ceiling: no slot is left  *)
(* idle while an undispatched part waits.                                  *)
(***************************************************************************)
PartSettles ==
  /\ Multipart /\ ~Cancelling /\ ~BadResponse
  /\ \E p \in DOMAIN conn :
       conn[p].st = "open" /\ conn[p].live /\ conn'[p].st = "done"

C35_SettledPartRefillsCapacity ==
  [][PartSettles =>
       (parts' = <<>>
          \/ Cardinality(activeConnections') = maxConcurrentConnections)]_vars

(***************************************************************************)
(* C36: part p sends the bytes (p-1)*chunkSize up to (p-1)*chunkSize +     *)
(* chunkSize, clipped to the payload; the ranges of the parts 1..N of a    *)
(* payload are pairwise disjoint and together they are the whole payload;  *)
(* a part sent again sends the same range.                                 *)
(***************************************************************************)
Sent == {p \in DOMAIN conn : conn[p].st # "none"}

RangeOf(p) ==
  ((p - 1) * ChunkUnits)..(Min((p - 1) * ChunkUnits + ChunkUnits, fileSize) - 1)

RangesPartition ==
  /\ \A p \in Sent : conn[p].chunk = RangeOf(p) /\ conn[p].chunk # {}
  /\ \A p, q \in Sent : p # q => conn[p].chunk \cap conn[q].chunk = {}
  /\ Sent = 1..numParts =>
       UNION {conn[p].chunk : p \in Sent} = 0..(fileSize - 1)

SameRangeAgain ==
  \A p \in DOMAIN conn : Opens(p) /\ p \in Sent => conn'[p].chunk = conn[p].chunk

C36_ByteRanges == [](Multipart => RangesPartition) /\ [][SameRangeAgain]_vars

\* every part of a payload that is no multiple of the chunk size was sent,
\* one of them twice
C36_Witness ==
  /\ Multipart /\ Sent = 1..numParts
  /\ fileSize % ChunkUnits # 0
  /\ \E p \in Sent : conn[p].retry > 0

(***************************************************************************)
(* C37: a single transfer answered with a status of 400 or more invokes    *)
(* onError exactly once, with an error that carries the status; the        *)
(* completion call is not issued and onComplete is not invoked.            *)
(***************************************************************************)
LoadRefused == ~Multipart /\ xhrStatus >= 400

C37_RefusedLoadReportsOnce ==
  LoadRefused =>
    /\ Count("onError") = 1
    /\ calls[Index("onError")].code = "Failed to upload file: " \o ToString(xhrStatus)
    /\ CompletionCalls = 0
    /\ Count("onComplete") = 0

C37_Witness == LoadRefused /\ xhrStatus = 500 /\ Count("onError") = 1

(***************************************************************************)
(* C38: every completion runs in this order: one batched call (in         *)
(* multipart with complete_multipart_upload and the manifest), then, when  *)
(* it resolves, the component-added event if and only if the event hub is  *)
(* connected, then onComplete; when the call is rejected nothing is        *)
(* published and onComplete is not invoked.  Nothing else publishes or     *)
(* invokes onComplete.                                                     *)
(***************************************************************************)
CompletionSettles(i) == rpcs[i].kind = "complete" /\ rpcs' = Remove(rpcs, i)

CallRejected == used'.rpcFail > used.rpcFail

Entry(name) == [name |-> name, code |-> "", parts |-> <<>>]

CompletionSteps ==
  (IF eventHub THEN <<Entry("publish")>> ELSE <<>>) \o <<Entry("onComplete")>>

CompletionCallShape ==
  \A i \in DOMAIN calls :
    (calls[i].name = "call" /\ calls[i].code # "get_upload_metadata") =>
      IF Multipart
      THEN calls[i].code = "complete_multipart_upload" /\ calls[i].parts # <<>>
      ELSE calls[i].code = "" /\ calls[i].parts = <<>>

CompletionOrder ==
  /\ \A i \in DOMAIN rpcs :
       CompletionSettles(i) =>
         IF CallRejected
         THEN /\ Count("onComplete")' = Count("onComplete")
              /\ Count("publish")' = Count("publish")
         ELSE calls' = calls \o CompletionSteps
  /\ (Count("onComplete")' # Count("onComplete")
        \/ Count("publish")' # Count("publish")) =>
       \E i \in DOMAIN rpcs : CompletionSettles(i) /\ ~CallRejected

C38_CompletionOrder == []CompletionCallShape /\ [][CompletionOrder]_vars

\* a multipart session with the event hub connected has completed
C38_Witness ==
  /\ Multipart /\ eventHub /\ Count("onComplete") = 1
  /\ LastCall.name = "onComplete"

(***************************************************************************)
(* C39: when a part commits, its bytes move from the in-flight cache to    *)
(* the committed counter: the counter is the size of the committed parts,  *)
(* a committed part has no entry in the cache, and every percentage        *)
(* reported lies in 0..100.                                                *)
(***************************************************************************)
Committed == {p \in DOMAIN conn : Occurrences(uploadedParts, p) > 0}

C39_CommittedBytesCountedOnce ==
  Multipart =>
    /\ uploadedSize = SumOver([p \in DOMAIN conn |-> PartSize(Cur, p)], Committed)
    /\ \A p \in Committed : conn[p].st # "open" => progressCache[p - 1] = -1
    /\ \A i \in DOMAIN reports : reports[i] \in 0..100

(***************************************************************************)
(* C40: abort(), or the abort signal, before start() or while the          *)
(* preflight call is pending has no effect: the step invokes no callback,  *)
(* issues no delete and leaves the session as it was, so the transfer      *)
(* goes on to open its connections as if nothing had been requested.       *)
(***************************************************************************)
BeforeTransfer == pc \in {"new", "preflight"}

C40_AbortBeforeTransferNoOp ==
  [][(Cancelling /\ BeforeTransfer) =>
       (SessionState' = SessionState /\ reports' = <<>>)]_vars

\* abort() and the signal came before the parts were dispatched: every part
\* is on its first connection, none was ever aborted
C40_Witness ==
  /\ Multipart /\ pc = "running"
  /\ used.abort > 0 /\ used.signal > 0
  /\ \A p \in DOMAIN conn : conn[p].st = "open" /\ conn[p].live /\ conn[p].retry = 0
  /\ parts = <<>> /\ orphans = <<>> /\ Scheduled = {}
  /\ Count("onAborted") = 0 /\ Count("delete") = 0

====
